---- MODULE Spec2Model ----
(***************************************************************************)
(* Model of the OGlove serial frame decoder (examples/usb_glove_data.py):  *)
(* the byte-wise state machine on_data, the LRC calc_lrc and the blocking  *)
(* read get_data with its polling loop and deadline.                       *)
(***************************************************************************)
EXTENDS Integers, Sequences, FiniteSets, TLC

\* ------------------------------------------------------------------ bounds

\* ticks of the clock that make up self.timeout
Timeout == 1
\* most bytes one serial_port.read hands over
MaxBatch == 2
\* most bytes the byte source delivers in one run of the reader
MaxStream == 6
\* longest payload of a transmitted frame (specification SpecFrames)
MaxLen == 2
\* longest byte stream fed to on_data alone (specification SpecFeed)
MaxFeed == 7

\* ------------------------------------------------------- program constants

MAX_PROTOCOL_DATA_SIZE == 64

WAIT_ON_HEADER_0 == 0
WAIT_ON_HEADER_1 == 1
WAIT_ON_BYTE_COUNT == 2
WAIT_ON_DATA == 3
WAIT_ON_LRC == 4

DATA_CNT_BYTE_NUM == 0
DATA_START_BYTE_NUM == 1

\* the two sync bytes on_data compares with
HEADER_0 == 85
HEADER_1 == 170

\* ------------------------------------------------------------------- state

VARIABLES
    oglove,      \* the OGlove instance: is_whole_packet, decode_state, packet_data, byte_count
    resp_bytes,  \* the caller's bytearray (glove_data in main)
    pc,          \* where get_data stands: "idle" (not called), "poll" (line 133), "validate" (line 155)
    elapsed,     \* time.time() - wait_start, in ticks, while a call is running
    ret,         \* what the last finished call returned
    path,        \* history: the return statement the last finished call left by
    at_return,   \* history: decode_state when that call reached its return statement
    fed,         \* history: every byte handed to on_data so far, in order
    pre,         \* history: decode_state and is_whole_packet on entry to each on_data call of SpecFeed
    wire,        \* the bytes the device transmits in a run of SpecFrames
    entry,       \* history: Len(fed), resp_bytes, decode_state and is_whole_packet when the
                 \* running (or last) call was entered
    prev         \* history: how the call before the running (or last) one ended

vars == <<oglove, resp_bytes, pc, elapsed, ret, path, at_return, fed, pre, wire, entry, prev>>

\* ------------------------------------------------------------ pure helpers

RECURSIVE Xor(_, _)
\* Python's ^ on two non-negative integers
Xor(a, b) ==
    IF a = 0 THEN b
    ELSE IF b = 0 THEN a
    ELSE (((a % 2) + (b % 2)) % 2) + (2 * Xor(a \div 2, b \div 2))

RECURSIVE XorFold(_)
\* XOR of all bytes of a sequence
XorFold(s) == IF s = << >> THEN 0 ELSE Xor(Head(s), XorFold(Tail(s)))

RECURSIVE lrc_loop(_, _, _, _)
\* the for loop of calc_lrc: i runs over range(lrcByteCount)
lrc_loop(lrcBytes, lrcByteCount, i, lrc) ==
    IF i >= lrcByteCount THEN lrc
    ELSE lrc_loop(lrcBytes, lrcByteCount, i + 1, Xor(lrc, lrcBytes[i]))

\* a variant whose loop starts after the length byte
calc_lrc_from_1(lrcBytes, lrcByteCount) == lrc_loop(lrcBytes, lrcByteCount, 1, 0)

calc_lrc(lrcBytes, lrcByteCount) == lrc_loop(lrcBytes, lrcByteCount, 0, 0)

\* bytearray(MAX_PROTOCOL_DATA_SIZE + 2), zero filled
NewPacketData == [i \in 0 .. (MAX_PROTOCOL_DATA_SIZE + 1) |-> 0]

\* OGlove.__init__
NewOGlove ==
    [is_whole_packet |-> FALSE,
     decode_state    |-> WAIT_ON_HEADER_0,
     packet_data     |-> NewPacketData,
     byte_count      |-> 0]

\* --------------------------------------------------------------- on_data

\* branch WAIT_ON_HEADER_0
OnHeader0(self, data) ==
    IF data = HEADER_0 THEN [self EXCEPT !.decode_state = WAIT_ON_HEADER_1] ELSE self

\* a variant that keeps a repeated 0x55 as a header-0 candidate
OnHeader1Rescan(self, data) ==
    [self EXCEPT !.decode_state =
        IF data = HEADER_1 THEN WAIT_ON_BYTE_COUNT
        ELSE IF data = HEADER_0 THEN WAIT_ON_HEADER_1
        ELSE WAIT_ON_HEADER_0]

\* branch WAIT_ON_HEADER_1
OnHeader1(self, data) ==
    [self EXCEPT !.decode_state =
        IF data = HEADER_1 THEN WAIT_ON_BYTE_COUNT ELSE WAIT_ON_HEADER_0]

\* a variant that waits for payload after a length of zero
OnByteCountZeroToData(self, data) ==
    [self EXCEPT !.packet_data[DATA_CNT_BYTE_NUM] = data,
                 !.byte_count = data,
                 !.decode_state =
                     IF data > MAX_PROTOCOL_DATA_SIZE THEN WAIT_ON_HEADER_0
                     ELSE WAIT_ON_DATA]

\* a variant without the MAX_PROTOCOL_DATA_SIZE test
OnByteCountNoLimit(self, data) ==
    [self EXCEPT !.packet_data[DATA_CNT_BYTE_NUM] = data,
                 !.byte_count = data,
                 !.decode_state = IF data > 0 THEN WAIT_ON_DATA ELSE WAIT_ON_LRC]

\* branch WAIT_ON_BYTE_COUNT
OnByteCount(self, data) ==
    [self EXCEPT !.packet_data[DATA_CNT_BYTE_NUM] = data,
                 !.byte_count = data,
                 !.decode_state =
                     IF data > MAX_PROTOCOL_DATA_SIZE THEN WAIT_ON_HEADER_0
                     ELSE IF data > 0 THEN WAIT_ON_DATA
                     ELSE WAIT_ON_LRC]

\* a variant that counts the payload position from the wrong end
DataIndexReversed(self) == DATA_START_BYTE_NUM + self.byte_count - 1

\* the index the WAIT_ON_DATA branch writes
DataIndex(self) ==
    DATA_START_BYTE_NUM + self.packet_data[DATA_CNT_BYTE_NUM] - self.byte_count

\* branch WAIT_ON_DATA
OnPayload(self, data) ==
    [self EXCEPT !.packet_data[DataIndex(self)] = data,
                 !.byte_count = self.byte_count - 1,
                 !.decode_state =
                     IF self.byte_count - 1 = 0 THEN WAIT_ON_LRC ELSE WAIT_ON_DATA]

\* the index the WAIT_ON_LRC branch writes
LrcIndex(self) == DATA_START_BYTE_NUM + self.packet_data[DATA_CNT_BYTE_NUM]

\* a variant that sets the flag and keeps the decoding state
OnLrcKeepsState(self, data) ==
    [self EXCEPT !.packet_data[LrcIndex(self)] = data,
                 !.is_whole_packet = TRUE]

\* branch WAIT_ON_LRC
OnLrc(self, data) ==
    [self EXCEPT !.packet_data[LrcIndex(self)] = data,
                 !.is_whole_packet = TRUE,
                 !.decode_state = WAIT_ON_HEADER_0]

\* a variant without the gate
GateOpen(self) == FALSE

\* the gate at the top of on_data
Gate(self) == self.is_whole_packet

\* on_data(self, data): the instance after the call
on_data(self, data) ==
    IF Gate(self) THEN self
    ELSE IF self.decode_state = WAIT_ON_HEADER_0 THEN OnHeader0(self, data)
    ELSE IF self.decode_state = WAIT_ON_HEADER_1 THEN OnHeader1(self, data)
    ELSE IF self.decode_state = WAIT_ON_BYTE_COUNT THEN OnByteCount(self, data)
    ELSE IF self.decode_state = WAIT_ON_DATA THEN OnPayload(self, data)
    ELSE IF self.decode_state = WAIT_ON_LRC THEN OnLrc(self, data)
    ELSE [self EXCEPT !.decode_state = WAIT_ON_HEADER_0]

\* ------------------------------------------------------------ input bytes

\* the byte values the byte source may deliver: two data bytes and the two
\* sync bytes, which as length bytes exceed MAX_PROTOCOL_DATA_SIZE
Bytes == {0, 1, HEADER_0, HEADER_1}
LiveBytes == {0, HEADER_0, HEADER_1}
\* the byte values handed to on_data alone: those, the data byte 2 and 0x11
FeedBytes == Bytes \cup {2, 17}

\* -------------------------------------------- on_data driven byte by byte

\* the state after oglove = OGlove(...) and glove_data = bytearray() in main
Init ==
    /\ oglove = NewOGlove
    /\ resp_bytes = << >>
    /\ pc = "idle"
    /\ elapsed = 0
    /\ ret = FALSE
    /\ path = "none"
    /\ at_return = WAIT_ON_HEADER_0
    /\ fed = << >>
    /\ pre = << >>
    /\ wire = << >>
    /\ entry = [start |-> 0, resp_bytes |-> << >>,
                decode_state |-> WAIT_ON_HEADER_0, is_whole_packet |-> FALSE]
    /\ prev = [path |-> "none", decode_state |-> WAIT_ON_HEADER_0]

readerVars == <<resp_bytes, pc, elapsed, ret, path, at_return, wire, entry, prev>>

InitFeed == Init

\* one call on_data(data) by the owner of the decoder
Feed(data) ==
    /\ Len(fed) < MaxFeed
    /\ oglove' = on_data(oglove, data)
    /\ fed' = Append(fed, data)
    /\ pre' = Append(pre, [decode_state |-> oglove.decode_state,
                           is_whole_packet |-> oglove.is_whole_packet])
    /\ UNCHANGED readerVars

NextFeed == \E data \in FeedBytes : Feed(data)

SpecFeed == InitFeed /\ [][NextFeed]_vars

\* --------------------------------------------------------------- get_data

RECURSIVE feed_loop(_, _)
\* for ch in data_bytes: self.on_data(ch)
feed_loop(self, data_bytes) ==
    IF data_bytes = << >> THEN self
    ELSE feed_loop(on_data(self, Head(data_bytes)), Tail(data_bytes))

\* wait_timeout < time.time(), with wait_timeout = wait_start + self.timeout
Expired(e) == e > Timeout

\* a variant that tests the deadline alone
TimedOutIgnoringFlag(self, e) == Expired(e)

\* (not self.is_whole_packet) and (wait_timeout < time.time())
TimedOut(self, e) == (~self.is_whole_packet) /\ Expired(e)

\* a variant without the break
NoBreak(self) == FALSE

\* if self.is_whole_packet: break
Break(self) == self.is_whole_packet

\* return False, after the deadline
TimeoutResult == FALSE

\* a variant that reports a damaged packet as a success
MismatchResultTrue == TRUE

\* return False, after the LRC test
MismatchResult == FALSE

\* a variant that keeps the decoding state
TimeoutNoReset(self) == self

\* the timeout path resets the decoding state
TimeoutReset(self) == [self EXCEPT !.decode_state = WAIT_ON_HEADER_0]

\* a variant whose LRC leaves out the last payload byte
LrcMismatchShort(self) ==
    calc_lrc(self.packet_data, self.packet_data[DATA_CNT_BYTE_NUM])
        # self.packet_data[DATA_START_BYTE_NUM + self.packet_data[DATA_CNT_BYTE_NUM]]

\* lrc != packet_data[DATA_START_BYTE_NUM + packet_data[DATA_CNT_BYTE_NUM]]
LrcMismatch(self) ==
    calc_lrc(self.packet_data, self.packet_data[DATA_CNT_BYTE_NUM] + 1)
        # self.packet_data[DATA_START_BYTE_NUM + self.packet_data[DATA_CNT_BYTE_NUM]]

\* a variant that leaves the flag set
KeepWholePacket(self) == self

\* both return paths after validation clear the flag
ClearWholePacket(self) == [self EXCEPT !.is_whole_packet = FALSE]

\* a variant whose slice starts at the length byte
ResponseDataFromCount(self) ==
    [k \in 1 .. self.packet_data[DATA_CNT_BYTE_NUM] |->
        self.packet_data[DATA_CNT_BYTE_NUM + k - 1]]

\* packet_data[DATA_START_BYTE_NUM : DATA_START_BYTE_NUM + packet_byte_count]
ResponseData(self) ==
    [k \in 1 .. self.packet_data[DATA_CNT_BYTE_NUM] |->
        self.packet_data[DATA_START_BYTE_NUM + k - 1]]

\* a variant that copies the payload before the LRC test
ResponseAlwaysCopied(self, resp) == ResponseData(self)

\* resp_bytes after the LRC test: kept on a mismatch, cleared and filled with
\* the payload otherwise
Response(self, resp) == IF LrcMismatch(self) THEN resp ELSE ResponseData(self)

\* the non-empty batches of at most MaxBatch bytes from bs
Batches(bs) == UNION {[1 .. n -> bs] : n \in 1 .. MaxBatch}

\* what serial_port.read may hand over when the byte source sends any bytes of
\* Bytes at any time, MaxStream bytes in all
FreeBatches == {b \in Batches(Bytes) : Len(fed) + Len(b) <= MaxStream}

\* what serial_port.read may hand over when the byte source sends any bytes of
\* LiveBytes at any time, without end
LiveBatches == Batches(LiveBytes)

\* what serial_port.read may hand over when the device transmits wire: any
\* number of the bytes not read yet
WireBatches ==
    {SubSeq(wire, Len(fed) + 1, Len(fed) + n) : n \in 1 .. (Len(wire) - Len(fed))}

\* main calls get_data(glove_data): the deadline is taken, the outer while is tested
GetDataCall ==
    /\ pc = "idle"
    /\ pc' = IF oglove.is_whole_packet THEN "validate" ELSE "poll"
    /\ elapsed' = 0
    /\ entry' = [start |-> Len(fed), resp_bytes |-> resp_bytes,
                 decode_state |-> oglove.decode_state,
                 is_whole_packet |-> oglove.is_whole_packet]
    /\ prev' = [path |-> path, decode_state |-> at_return]
    /\ path' = "running"
    /\ UNCHANGED <<oglove, resp_bytes, ret, at_return, fed, pre, wire>>

\* the deadline test after the inner loop, on the decoder self: past the
\* deadline the decoding state is reset and the call returns False; otherwise
\* the outer while is tested again
AfterInnerLoop(self) ==
    IF TimedOut(self, elapsed)
    THEN /\ oglove' = TimeoutReset(self)
         /\ at_return' = self.decode_state
         /\ ret' = TimeoutResult
         /\ path' = "timeout"
         /\ pc' = "idle"
    ELSE /\ oglove' = self
         /\ pc' = IF self.is_whole_packet THEN "validate" ELSE "poll"
         /\ UNCHANGED <<at_return, ret, path>>

\* in_waiting > 0: one batch is read and every byte of it goes to on_data; a
\* completed packet breaks out of the inner loop, and the deadline test and
\* the outer while follow. With rec the bytes are kept in fed.
ReadBatch(batches, rec) ==
    /\ pc = "poll"
    /\ \E data_bytes \in batches :
          /\ fed' = (IF rec THEN fed \o data_bytes ELSE fed)
          /\ IF Break(feed_loop(oglove, data_bytes))
             THEN AfterInnerLoop(feed_loop(oglove, data_bytes))
             ELSE /\ oglove' = feed_loop(oglove, data_bytes)
                  /\ UNCHANGED <<pc, at_return, ret, path>>
    /\ UNCHANGED <<resp_bytes, elapsed, pre, wire, entry, prev>>

\* in_waiting = 0: the inner loop is left at once
PollEmpty ==
    /\ pc = "poll"
    /\ AfterInnerLoop(oglove)
    /\ UNCHANGED <<resp_bytes, elapsed, fed, pre, wire, entry, prev>>

\* the LRC test and the copy into resp_bytes
Validate ==
    /\ pc = "validate"
    /\ resp_bytes' = Response(oglove, resp_bytes)
    /\ ret' = (IF LrcMismatch(oglove) THEN MismatchResult ELSE TRUE)
    /\ path' = (IF LrcMismatch(oglove) THEN "lrc" ELSE "ok")
    /\ oglove' = ClearWholePacket(oglove)
    /\ at_return' = oglove.decode_state
    /\ pc' = "idle"
    /\ UNCHANGED <<elapsed, fed, pre, wire, entry, prev>>

\* time passes while get_data polls; the clock is not read after the loops
Tick ==
    /\ pc = "poll"
    /\ ~Expired(elapsed)
    /\ elapsed' = elapsed + 1
    /\ UNCHANGED <<oglove, resp_bytes, pc, ret, path, at_return, fed, pre, wire, entry, prev>>

Next ==
    \/ GetDataCall
    \/ ReadBatch(FreeBatches, TRUE)
    \/ PollEmpty
    \/ Validate
    \/ Tick

Spec == Init /\ [][Next]_vars

\* ------------------------------------------- a device transmitting frames

\* the payloads of the transmitted frames, one of each kind per length: the
\* bytes 1, 2, 3, ... and bytes that look like the frame header
Counting(n) == [k \in 1 .. n |-> k]
HeaderLike(n) == [k \in 1 .. n |-> IF k % 2 = 1 THEN HEADER_0 ELSE HEADER_1]
Payloads == {Counting(n) : n \in 0 .. MaxLen} \cup {HeaderLike(n) : n \in 1 .. MaxLen}

\* the frame of a payload: header, length, payload, LRC
Frame(payload) ==
    <<HEADER_0, HEADER_1, Len(payload)>> \o payload
        \o <<Xor(Len(payload), XorFold(payload))>>

\* byte c with bit k flipped
FlipBit(c, k) == Xor(c, 2 ^ k)

\* frame f with bit k of its checksum byte flipped
Corrupt(f, k) == [f EXCEPT ![Len(f)] = FlipBit(f[Len(f)], k)]

ValidFrames == {Frame(p) : p \in Payloads}
CorruptFrames == {Corrupt(f, k) : f \in ValidFrames, k \in 0 .. 7}

\* what the device may transmit in one go: nothing, a frame, a stray byte,
\* or a frame with a damaged checksum
CleanItems == {<< >>} \cup ValidFrames \cup {<<17>>, <<HEADER_0>>}
Items == CleanItems \cup CorruptFrames

\* a frame the device stopped sending before its end
Truncated == UNION {{SubSeq(f, 1, n) : n \in 1 .. (Len(f) - 1)} : f \in ValidFrames}

\* the transmissions of a run: two items, at most one of them damaged, or a
\* frame cut short and then a whole one
Wires ==
    {a \o b : a \in CleanItems, b \in Items}
        \cup {a \o b : a \in Items, b \in CleanItems}
        \cup {a \o b : a \in Truncated, b \in ValidFrames}

InitFrames ==
    /\ oglove = NewOGlove
    /\ resp_bytes = << >>
    /\ pc = "idle"
    /\ elapsed = 0
    /\ ret = FALSE
    /\ path = "none"
    /\ at_return = WAIT_ON_HEADER_0
    /\ fed = << >>
    /\ pre = << >>
    /\ wire \in Wires
    /\ entry = [start |-> 0, resp_bytes |-> << >>,
                decode_state |-> WAIT_ON_HEADER_0, is_whole_packet |-> FALSE]
    /\ prev = [path |-> "none", decode_state |-> WAIT_ON_HEADER_0]

NextFrames ==
    \/ GetDataCall
    \/ ReadBatch(WireBatches, TRUE)
    \/ PollEmpty
    \/ Validate
    \/ Tick

SpecFrames == InitFrames /\ [][NextFrames]_vars

\* --------------------------------------------- a source that never runs dry

NextLive ==
    \/ GetDataCall
    \/ ReadBatch(LiveBatches, FALSE)
    \/ PollEmpty
    \/ Validate
    \/ Tick

\* a call that has been entered keeps running, and time keeps passing
FairSpec ==
    /\ Init
    /\ [][NextLive]_vars
    /\ WF_vars(ReadBatch(LiveBatches, FALSE) \/ PollEmpty \/ Validate)
    /\ WF_vars(Tick)

\* ------------------------------------------------- frames in a byte stream

\* s holds, from position i on, a structurally complete frame
\* [0x55, 0xAA, LEN, LEN payload bytes, CHK] with LEN <= 64
IsFrameAt(s, i) ==
    /\ i >= 1
    /\ i + 3 <= Len(s)
    /\ s[i] = 85
    /\ s[i + 1] = 170
    /\ s[i + 2] <= 64
    /\ i + 3 + s[i + 2] <= Len(s)

FrameLen(s, i) == s[i + 2]
FramePayload(s, i) == SubSeq(s, i + 3, i + 2 + FrameLen(s, i))
FrameChk(s, i) == s[i + 3 + FrameLen(s, i)]

\* a frame whose checksum is the XOR of its length byte and its payload
IsValidFrameAt(s, i) ==
    /\ IsFrameAt(s, i)
    /\ FrameChk(s, i) = Xor(FrameLen(s, i), XorFold(FramePayload(s, i)))

\* the decoder holds the frame found at position i of s as its pending packet
HoldsFrame(self, s, i) ==
    /\ self.is_whole_packet
    /\ self.packet_data[DATA_CNT_BYTE_NUM] = FrameLen(s, i)
    /\ \A k \in 1 .. FrameLen(s, i) :
           self.packet_data[DATA_START_BYTE_NUM + k - 1] = FramePayload(s, i)[k]
    /\ self.packet_data[DATA_START_BYTE_NUM + FrameLen(s, i)] = FrameChk(s, i)

\* the decoder was scanning for 0x55 when byte i of the history arrived
ScanningAt(i) ==
    /\ pre[i].decode_state = WAIT_ON_HEADER_0
    /\ ~pre[i].is_whole_packet

\* decode_state and is_whole_packet after byte i of the history
After(i) ==
    IF i = Len(fed)
    THEN [decode_state |-> oglove.decode_state, is_whole_packet |-> oglove.is_whole_packet]
    ELSE pre[i + 1]

\* ------------------------------------------------------------------ C1

\* C1 as stated: fed byte by byte to a fresh decoder, is_whole_packet is True
\* exactly when the bytes fed so far contain a contiguous frame
\* [0x55, 0xAA, LEN, LEN payload bytes, CHK] with LEN <= 64.
C1_AnyRun ==
    oglove.is_whole_packet <=> (\E i \in 1 .. Len(fed) : IsFrameAt(fed, i))

\* C1 amended: is_whole_packet is True exactly when the bytes fed so far contain
\* such a frame whose first byte arrived while the decoder was in
\* WAIT_ON_HEADER_0 with is_whole_packet False.
C1_RunFromHeader0 ==
    oglove.is_whole_packet <=>
        (\E i \in 1 .. Len(fed) : IsFrameAt(fed, i) /\ ScanningAt(i))

\* a frame preceded by a byte that is not part of it has completed
C1_Witness ==
    /\ oglove.is_whole_packet
    /\ \E i \in 2 .. Len(fed) : IsFrameAt(fed, i) /\ ScanningAt(i)

\* ------------------------------------------------- the calls of get_data

\* the bytes handed to on_data by the running (or last) call
CallFed == SubSeq(fed, entry.start + 1, Len(fed))

\* a call has returned and no other has been entered
Returned == pc = "idle" /\ path # "none"

\* the call was entered with the decoder in WAIT_ON_HEADER_0, no packet pending
EnteredScanning == entry.decode_state = WAIT_ON_HEADER_0 /\ ~entry.is_whole_packet

\* the pending or last packet of the decoder is the frame at position i of s
PacketIs(self, s, i) ==
    /\ self.packet_data[DATA_CNT_BYTE_NUM] = FrameLen(s, i)
    /\ \A k \in 1 .. FrameLen(s, i) :
           self.packet_data[DATA_START_BYTE_NUM + k - 1] = FramePayload(s, i)[k]
    /\ self.packet_data[DATA_START_BYTE_NUM + FrameLen(s, i)] = FrameChk(s, i)

\* ------------------------------------------------------------------ C2

\* C2: when the bytes a call of get_data hands to a decoder in
\* WAIT_ON_HEADER_0 begin with [0x55, 0xAA, L, payload, XOR(L, payload)], the
\* call returns True and resp_bytes is exactly that payload.
C2_RoundTrip ==
    (Returned /\ EnteredScanning /\ IsValidFrameAt(CallFed, 1))
    => /\ ret = TRUE
       /\ resp_bytes = FramePayload(CallFed, 1)

\* the frame of payload [1, 2] came back, after an earlier call had timed out
C2_Witness ==
    /\ Returned
    /\ ret = TRUE
    /\ prev.path = "timeout"
    /\ IsValidFrameAt(CallFed, 1)
    /\ resp_bytes = <<1, 2>>

\* ------------------------------------------------------------------ C3

\* C3: whenever get_data returns True, resp_bytes is the payload of a frame
\* among the bytes this call handed to on_data, that frame is the packet
\* on_data assembled, and its checksum byte is the XOR of its length byte and
\* its payload bytes.
C3_OnlyValidSurfaced ==
    (Returned /\ ret = TRUE)
    => \E i \in 1 .. Len(CallFed) :
          /\ IsValidFrameAt(CallFed, i)
          /\ PacketIs(oglove, CallFed, i)
          /\ resp_bytes = FramePayload(CallFed, i)

\* a call returned True with a payload although its first byte was noise
C3_Witness ==
    /\ Returned
    /\ ret = TRUE
    /\ resp_bytes # << >>
    /\ CallFed[1] # 85

\* ------------------------------------------------------------------ C4

\* the bytes of the call begin with a frame whose checksum byte is the right
\* one with bit k flipped
DamagedFrameFed(k) ==
    /\ IsFrameAt(CallFed, 1)
    /\ FrameChk(CallFed, 1)
         = FlipBit(Xor(FrameLen(CallFed, 1), XorFold(FramePayload(CallFed, 1))), k)

\* C4: when the bytes a call hands to a decoder in WAIT_ON_HEADER_0 begin with
\* a well-formed frame one bit of whose checksum byte is flipped, the call
\* returns False by the checksum branch and resp_bytes is as it was on entry.
C4_CorruptionRejected ==
    \A k \in 0 .. 7 :
        (Returned /\ EnteredScanning /\ DamagedFrameFed(k))
        => /\ ret = FALSE
           /\ path = "lrc"
           /\ resp_bytes = entry.resp_bytes

\* a frame with bit 7 of its checksum flipped was rejected while resp_bytes
\* held the payload of an earlier frame
C4_Witness ==
    /\ Returned
    /\ path = "lrc"
    /\ DamagedFrameFed(7)
    /\ FrameLen(CallFed, 1) > 0
    /\ resp_bytes # << >>

\* ------------------------------------------------------------------ C5

\* C5: a call of get_data whose deadline has passed returns, whatever the
\* byte source does.
C5_ReturnsAfterDeadline == (pc # "idle" /\ Expired(elapsed)) ~> (pc = "idle")

\* ------------------------------------------------------------------ C6

\* C6: after a call that failed, by timeout or by checksum mismatch, a call
\* whose bytes begin with a complete valid frame returns True with exactly
\* that frame's payload.
C6_NoLeakedState ==
    (Returned /\ prev.path \in {"timeout", "lrc"} /\ IsValidFrameAt(CallFed, 1))
    => /\ ret = TRUE
       /\ resp_bytes = FramePayload(CallFed, 1)

\* the call before timed out in the middle of a payload, and this one
\* returned the payload of a fresh frame
C6_Witness ==
    /\ Returned
    /\ prev.path = "timeout"
    /\ prev.decode_state = WAIT_ON_DATA
    /\ IsValidFrameAt(CallFed, 1)
    /\ ret = TRUE
    /\ resp_bytes = <<1, 2>>

\* the call before failed the checksum test, and this one returned a payload
C6_WitnessAfterMismatch ==
    /\ Returned
    /\ prev.path = "lrc"
    /\ IsValidFrameAt(CallFed, 1)
    /\ ret = TRUE
    /\ resp_bytes # << >>

\* ------------------------------------------------------------------ C7

\* C7: while is_whole_packet is True a call of on_data, with any byte, leaves
\* decode_state, byte_count, packet_data and is_whole_packet unchanged.
C7_SingleInFlight == [][oglove.is_whole_packet => oglove' = oglove]_vars

\* a byte has been fed while a packet was pending
C7_Witness == Len(fed) > 0 /\ pre[Len(fed)].is_whole_packet

\* ------------------------------------------------------------------ C8

\* C8: a length byte above 64 received in WAIT_ON_BYTE_COUNT sets no
\* is_whole_packet and returns the decoder to WAIT_ON_HEADER_0, and a valid
\* frame fed right after it is held as the pending packet and passes the LRC test.
C8_Oversized ==
    \A i \in 1 .. Len(fed) :
        (pre[i].decode_state = WAIT_ON_BYTE_COUNT /\ ~pre[i].is_whole_packet /\ fed[i] > 64)
        => /\ After(i).decode_state = WAIT_ON_HEADER_0
           /\ ~After(i).is_whole_packet
           /\ IsValidFrameAt(fed, i + 1) =>
                 /\ HoldsFrame(oglove, fed, i + 1)
                 /\ calc_lrc(oglove.packet_data, FrameLen(fed, i + 1) + 1)
                      = oglove.packet_data[DATA_START_BYTE_NUM + FrameLen(fed, i + 1)]

\* the length byte 0xAA was followed by a complete valid frame
C8_Witness ==
    \E i \in 1 .. Len(fed) :
        /\ pre[i].decode_state = WAIT_ON_BYTE_COUNT
        /\ fed[i] = 170
        /\ IsValidFrameAt(fed, i + 1)

\* ------------------------------------------------------------------ C9

\* the bytes before position i
Noise(i) == SubSeq(fed, 1, i - 1)

\* C9 as stated: whatever bytes come before a well-formed frame (no frame
\* among them), the decoder holds that frame with its length and payload.
C9_AnyNoise ==
    \A i \in 1 .. Len(fed) :
        (IsValidFrameAt(fed, i) /\ ~(\E j \in 1 .. (i - 1) : IsFrameAt(Noise(i), j)))
        => HoldsFrame(oglove, fed, i)

\* C9 amended: noise without the byte 0x55 leaves the decoder in
\* WAIT_ON_HEADER_0, and whenever the noise before a well-formed frame leaves
\* it in WAIT_ON_HEADER_0 the decoder holds that frame with its length and payload.
C9_NoiseEndingInHeader0 ==
    \A i \in 1 .. Len(fed) :
        /\ (\A j \in 1 .. (i - 1) : fed[j] # 85) => ScanningAt(i)
        /\ (IsValidFrameAt(fed, i) /\ ScanningAt(i)) => HoldsFrame(oglove, fed, i)

\* the stream [0x11, 0x55, 0xAA, 0x02, 0x01, 0x02, CHK] has been decoded
C9_Witness ==
    /\ fed = <<17, 85, 170, 2, 1, 2, 1>>
    /\ HoldsFrame(oglove, fed, 2)
    /\ FramePayload(fed, 2) = <<1, 2>>

\* ----------------------------------------------------------------- C10

\* C10: in WAIT_ON_BYTE_COUNT a length byte of 0 takes the decoder straight to
\* WAIT_ON_LRC, and a call whose bytes begin with [0x55, 0xAA, 0x00, 0x00]
\* returns True with an empty resp_bytes.
C10_ZeroLength ==
    /\ (oglove.decode_state = WAIT_ON_BYTE_COUNT /\ ~oglove.is_whole_packet)
       => on_data(oglove, 0).decode_state = WAIT_ON_LRC
    /\ (Returned /\ EnteredScanning /\ Len(CallFed) >= 4
           /\ SubSeq(CallFed, 1, 4) = <<85, 170, 0, 0>>)
       => /\ ret = TRUE
          /\ resp_bytes = << >>

\* the frame [0x55, 0xAA, 0x00, 0x00], its length byte read in a batch of its
\* own, emptied a resp_bytes that held a payload
C10_Witness ==
    /\ Returned
    /\ CallFed = <<85, 170, 0, 0>>
    /\ entry.resp_bytes # << >>
    /\ ret = TRUE
    /\ resp_bytes = << >>

\* ----------------------------------------------------------------- C11

\* C11: whenever a get_data call has returned, by the success path, the
\* timeout path or the checksum path, is_whole_packet is False and
\* decode_state is WAIT_ON_HEADER_0.
C11_ReusableAtReturn ==
    Returned => /\ ~oglove.is_whole_packet
                /\ oglove.decode_state = WAIT_ON_HEADER_0

\* a call failed the checksum test and the next one timed out in the middle
\* of a payload
C11_Witness ==
    /\ Returned
    /\ path = "timeout"
    /\ at_return = WAIT_ON_DATA
    /\ prev.path = "lrc"

\* ----------------------------------------------------------------- C12

\* the length bytes a device may declare: every value of a byte
Lengths == 0 .. 255

\* the byte a long transmission repeats after its length byte
Fills == {0, 255}

\* the header, the length byte len and then the byte fill, as often as the
\* buffer has slots, or as the length declares when that is less, and two
\* bytes more
LongWire(len, fill) ==
    <<HEADER_0, HEADER_1, len>>
        \o [k \in 1 .. ((IF len < MAX_PROTOCOL_DATA_SIZE + 2
                         THEN len ELSE MAX_PROTOCOL_DATA_SIZE + 2) + 2) |-> fill]

LongWires == {LongWire(len, fill) : len \in Lengths, fill \in Fills}

InitLong ==
    /\ oglove = NewOGlove
    /\ resp_bytes = << >>
    /\ pc = "idle"
    /\ elapsed = 0
    /\ ret = FALSE
    /\ path = "none"
    /\ at_return = WAIT_ON_HEADER_0
    /\ fed = << >>
    /\ pre = << >>
    /\ wire \in LongWires
    /\ entry = [start |-> 0, resp_bytes |-> << >>,
                decode_state |-> WAIT_ON_HEADER_0, is_whole_packet |-> FALSE]
    /\ prev = [path |-> "none", decode_state |-> WAIT_ON_HEADER_0]

\* one call on_data(ch) with the next byte of the transmission
FeedWire ==
    /\ Len(fed) < Len(wire)
    /\ oglove' = on_data(oglove, wire[Len(fed) + 1])
    /\ fed' = Append(fed, wire[Len(fed) + 1])
    /\ pre' = Append(pre, [decode_state |-> oglove.decode_state,
                           is_whole_packet |-> oglove.is_whole_packet])
    /\ UNCHANGED readerVars

NextLong == FeedWire

SpecLong == InitLong /\ [][NextLong]_vars

\* the next call of on_data writes into packet_data
Writes(self) ==
    /\ ~Gate(self)
    /\ self.decode_state \in {WAIT_ON_BYTE_COUNT, WAIT_ON_DATA, WAIT_ON_LRC}

\* the index that call writes at
WriteIndex(self) ==
    IF self.decode_state = WAIT_ON_BYTE_COUNT THEN DATA_CNT_BYTE_NUM
    ELSE IF self.decode_state = WAIT_ON_DATA THEN DataIndex(self)
    ELSE LrcIndex(self)

\* C12: in every state the decoder reaches, the index at which the next call
\* of on_data writes into packet_data (0 for the length byte,
\* 1 + length - byte_count for a payload byte, 1 + length for the checksum) is
\* one of the indices 0..65 of the buffer, so that no call raises.
C12_WritesInBuffer ==
    /\ DOMAIN oglove.packet_data = 0 .. (MAX_PROTOCOL_DATA_SIZE + 1)
    /\ Writes(oglove) => WriteIndex(oglove) \in 0 .. (MAX_PROTOCOL_DATA_SIZE + 1)

\* a frame of declared length 64 has had its last payload byte stored at
\* index 64 and its checksum will go to index 65, the last of the buffer
C12_Witness ==
    /\ Len(fed) > 0
    /\ pre[Len(fed)].decode_state = WAIT_ON_DATA
    /\ oglove.decode_state = WAIT_ON_LRC
    /\ oglove.packet_data[DATA_CNT_BYTE_NUM] = MAX_PROTOCOL_DATA_SIZE
    /\ WriteIndex(oglove) = MAX_PROTOCOL_DATA_SIZE + 1

\* ----------------------------------------------------------------- C13

C14_HeaderSteps ==
    \A i \in 1 .. Len(fed) :
        /\ (pre[i].decode_state = WAIT_ON_HEADER_1 /\ ~pre[i].is_whole_packet)
           => /\ After(i).decode_state =
                    (IF fed[i] = HEADER_1 THEN WAIT_ON_BYTE_COUNT ELSE WAIT_ON_HEADER_0)
              /\ ~After(i).is_whole_packet
        /\ (ScanningAt(i) /\ fed[i] # HEADER_0)
           => /\ After(i).decode_state = WAIT_ON_HEADER_0
              /\ ~After(i).is_whole_packet

\* 0x55 arrived in WAIT_ON_HEADER_1 and the 0xAA after it was passed over in
\* WAIT_ON_HEADER_0
C14_Witness ==
    \E i \in 1 .. (Len(fed) - 1) :
        /\ pre[i].decode_state = WAIT_ON_HEADER_1
        /\ fed[i] = HEADER_0
        /\ pre[i + 1].decode_state = WAIT_ON_HEADER_0
        /\ fed[i + 1] = HEADER_1
        /\ After(i + 1).decode_state = WAIT_ON_HEADER_0

\* ----------------------------------------------------------------- C15

\* the first 0x55 among the bytes s is at i and begins a complete frame
FirstFrameAt(s, i) ==
    /\ IsFrameAt(s, i)
    /\ \A j \in 1 .. (i - 1) : s[j] # HEADER_0

\* C15: a call that began with the decoder scanning and whose bytes hold a
\* complete frame at their first 0x55 does not end on the timeout path,
\* whatever the clock says when the batch completing the frame is read: it
\* returns the outcome of the checksum test of that frame, True with a right
\* checksum byte and False with a wrong one. A call on the timeout path has
\* is_whole_packet False.
C15_PacketBeforeDeadline ==
    /\ (Returned /\ path = "timeout") => ~oglove.is_whole_packet
    /\ \A i \in 1 .. Len(CallFed) :
          (Returned /\ EnteredScanning /\ FirstFrameAt(CallFed, i))
          => /\ path \in {"ok", "lrc"}
             /\ path = "ok" <=> IsValidFrameAt(CallFed, i)
             /\ ret = IsValidFrameAt(CallFed, i)

\* the deadline had passed when the batch that completed a valid frame was
\* read, and the call returned True with its payload
C15_Witness ==
    /\ Returned
    /\ EnteredScanning
    /\ Expired(elapsed)
    /\ IsValidFrameAt(CallFed, 1)
    /\ path = "ok"
    /\ ret = TRUE
    /\ resp_bytes = FramePayload(CallFed, 1)
    /\ resp_bytes # << >>

\* ----------------------------------------------------------------- C16

\* C16: once is_whole_packet is set during a get_data call, the next step of
\* that call is the checksum test and the return: no byte is read from the
\* source any more, the call ends with the outcome of that one test, False on
\* a mismatch, and it leaves the flag cleared.
C16_NoRetry ==
    [][(pc # "idle" /\ oglove.is_whole_packet)
        => /\ fed' = fed
           /\ pc' = "idle"
           /\ ~oglove'.is_whole_packet
           /\ path' = (IF LrcMismatch(oglove) THEN "lrc" ELSE "ok")
           /\ ret' = ~LrcMismatch(oglove)]_vars

\* a call returned False on a checksum mismatch while a valid frame was still
\* unread on the wire
C16_Witness ==
    /\ Returned
    /\ path = "lrc"
    /\ ret = FALSE
    /\ Len(CallFed) > 0
    /\ IsValidFrameAt(wire, Len(fed) + 1)

\* ----------------------------------------------------------------- C17

\* where the second of two back-to-back frames begins on the wire
Second == FrameLen(wire, 1) + 5

\* the wire is two valid frames back to back, and nothing else
TwoFrames ==
    /\ IsValidFrameAt(wire, 1)
    /\ IsValidFrameAt(wire, Second)
    /\ Len(wire) = Second + 3 + FrameLen(wire, Second)

\* C17: when the device sends two valid frames back to back and the first
\* get_data call reads the wire to its end, so that the second frame is in the
\* batch that completes the first, the call returns True with the payload of
\* the first frame; and every call begun after that finds nothing to read,
\* leaves resp_bytes as it found it and returns False on the timeout path: the
\* second frame is returned by no call.
C17_TrailingFrameDropped ==
    TwoFrames
    => /\ (Returned /\ entry.start = 0 /\ CallFed = wire)
          => /\ path = "ok"
             /\ ret = TRUE
             /\ resp_bytes = FramePayload(wire, 1)
       /\ (entry.start = Len(wire) /\ path # "none")
          => /\ resp_bytes = entry.resp_bytes
             /\ Returned => (path = "timeout" /\ ret = FALSE)

\* the call before read both frames and returned the payload of the first;
\* this one timed out and the caller still holds the first payload, which the
\* second frame's differs from
C17_Witness ==
    /\ TwoFrames
    /\ FramePayload(wire, 1) # FramePayload(wire, Second)
    /\ Returned
    /\ entry.start = Len(wire)
    /\ prev.path = "ok"
    /\ path = "timeout"
    /\ resp_bytes = FramePayload(wire, 1)

\* ----------------------------------------------------------------- C18

\* C18: from the moment a get_data call begins, the caller's resp_bytes
\* differs from what it was at the call only after the call has returned True
\* on the success path: a call that returned False, on the timeout path or on
\* the checksum path, left resp_bytes exactly as it was.
C18_FailureKeepsResp ==
    /\ (Returned /\ ret = FALSE) => resp_bytes = entry.resp_bytes
    /\ (path # "none" /\ resp_bytes # entry.resp_bytes)
       => (Returned /\ path = "ok" /\ ret = TRUE)

\* a call returned a payload, and the next one failed the checksum test on a
\* frame with another payload and left the first payload with the caller
C18_Witness ==
    /\ Returned
    /\ prev.path = "ok"
    /\ path = "lrc"
    /\ ret = FALSE
    /\ resp_bytes # << >>
    /\ resp_bytes = entry.resp_bytes
    /\ ResponseData(oglove) # resp_bytes

\* ----------------------------------------------------------------- C19

\* C19: in every state decode_state is one of the five states 0..4,
\* is_whole_packet is set only with decode_state WAIT_ON_HEADER_0, and in
\* WAIT_ON_DATA 1 <= byte_count <= packet_data[0] <= 64.
C19_DecoderInvariant ==
    /\ oglove.decode_state \in WAIT_ON_HEADER_0 .. WAIT_ON_LRC
    /\ oglove.is_whole_packet => oglove.decode_state = WAIT_ON_HEADER_0
    /\ oglove.decode_state = WAIT_ON_DATA
       => /\ 1 <= oglove.byte_count
          /\ oglove.byte_count <= oglove.packet_data[DATA_CNT_BYTE_NUM]
          /\ oglove.packet_data[DATA_CNT_BYTE_NUM] <= MAX_PROTOCOL_DATA_SIZE

\* the length byte 64 has just been stored and all 64 payload bytes are awaited
C19_Witness ==
    /\ oglove.decode_state = WAIT_ON_DATA
    /\ oglove.byte_count = MAX_PROTOCOL_DATA_SIZE
    /\ oglove.packet_data[DATA_CNT_BYTE_NUM] = MAX_PROTOCOL_DATA_SIZE
    /\ ~oglove.is_whole_packet

====
